---- MODULE Spec2Model ----
(***************************************************************************)
(* httprepeater (src/src/main.rs): a wordlist is loaded into a Vec guarded *)
(* by one Mutex, the header and body templates are scanned for delimiter   *)
(* offsets, args.threads worker tasks pop words from the Vec and spawn one *)
(* request task per word, and the main task joins the workers.             *)
(*                                                                         *)
(* A String is a sequence of one-character strings; offsets are 0-based as *)
(* in the source.  Option<T> is <<>> (None) or <<x>> (Some(x)).  A tuple   *)
(* (String, Vec<usize>) is <<s, idx>>, so t[1] is t.0 and t[2] is t.1.     *)
(* The delimiter is a non-empty string (spec.md, section 3).               *)
(***************************************************************************)
EXTENDS Integers, Sequences, FiniteSets, Bags, TLC

\* ------------------------------------------------------------------ bounds
MaxWords == 2
MaxThreads == 2
MaxRawLen == 5
MaxDelimLen == 2

\* ----------------------------------------------------------------- strings
None == <<>>
Some(x) == <<x>>

\* Strings over alphabet A of length at most n.
StrsUpTo(A, n) == UNION {[1..k -> A] : k \in 0..n}

\* s[from..to] of the source (0-based, to exclusive).
Slice(s, from, to) == SubSeq(s, from + 1, to)

\* The strings of ss pushed one after the other to an empty String.
RECURSIVE Concat(_)
Concat(ss) == IF ss = <<>> THEN <<>> ELSE Head(ss) \o Concat(Tail(ss))

\* Mutant of MatchFrom: the scan resumes one character after a match, so
\* overlapping matches are reported.
RECURSIVE MatchFromOverlapping(_, _, _)
MatchFromOverlapping(s, pat, i) ==
    IF i + Len(pat) > Len(s) THEN <<>>
    ELSE IF Slice(s, i, i + Len(pat)) = pat
         THEN <<i>> \o MatchFromOverlapping(s, pat, i + 1)
         ELSE MatchFromOverlapping(s, pat, i + 1)

\* str::match_indices(pat).map(|x| x.0): the offsets of the leftmost,
\* non-overlapping matches of pat in s, scanning from offset i.
RECURSIVE MatchFrom(_, _, _)
MatchFrom(s, pat, i) ==
    IF i + Len(pat) > Len(s) THEN <<>>
    ELSE IF Slice(s, i, i + Len(pat)) = pat
         THEN <<i>> \o MatchFrom(s, pat, i + Len(pat))
         ELSE MatchFrom(s, pat, i + 1)

MatchIndices(s, pat) == MatchFrom(s, pat, 0)

\* str::split(sep).collect(): the pieces between the matches of sep.
Split(s, sep) ==
    LET m == MatchIndices(s, sep) IN
    [k \in 1..(Len(m) + 1) |->
        Slice(s, IF k = 1 THEN 0 ELSE m[k - 1] + Len(sep),
                 IF k = Len(m) + 1 THEN Len(s) ELSE m[k])]

ColonSpace == <<":", " ">>

http_methods ==
    {"GET", "POST", "PUT", "PATCH", "DELETE", "HEAD", "OPTIONS", "CONNECT", "TRACE"}

\* --------------------------------------------------------------- compiling
\* The inner loop of get_headers over the two parts of one split header:
\* each part with its delimiter offsets, or a panic on an odd count.
RECURSIVE HeaderParts(_, _)
HeaderParts(parts, delim) ==
    IF parts = <<>> THEN [ok |-> TRUE, v |-> <<>>]
    ELSE LET indices == MatchIndices(Head(parts), delim) IN
         IF Len(indices) % 2 # 0 THEN [ok |-> FALSE, v |-> <<>>]
         ELSE LET rest == HeaderParts(Tail(parts), delim) IN
              IF rest.ok THEN [ok |-> TRUE, v |-> << <<Head(parts), indices>> >> \o rest.v]
              ELSE rest

\* Mutant of get_headers: only a flag with fewer than two parts is skipped.
RECURSIVE get_headersKeepLong(_, _)
get_headersKeepLong(header, delim) ==
    IF header = <<>> THEN [ok |-> TRUE, v |-> <<>>]
    ELSE LET splitheader == Split(Head(header), ColonSpace) IN
         IF Len(splitheader) < 2 THEN get_headersKeepLong(Tail(header), delim)
         ELSE LET tempvec == HeaderParts(splitheader, delim) IN
              IF ~tempvec.ok THEN tempvec
              ELSE LET rest == get_headersKeepLong(Tail(header), delim) IN
                   IF rest.ok THEN [ok |-> TRUE, v |-> <<tempvec.v>> \o rest.v]
                   ELSE rest

\* get_headers: a flag that does not split in two on ": " is skipped.
RECURSIVE get_headers(_, _)
get_headers(header, delim) ==
    IF header = <<>> THEN [ok |-> TRUE, v |-> <<>>]
    ELSE LET splitheader == Split(Head(header), ColonSpace) IN
         IF Len(splitheader) # 2 THEN get_headers(Tail(header), delim)
         ELSE LET tempvec == HeaderParts(splitheader, delim) IN
              IF ~tempvec.ok THEN tempvec
              ELSE LET rest == get_headers(Tail(header), delim) IN
                   IF rest.ok THEN [ok |-> TRUE, v |-> <<tempvec.v>> \o rest.v]
                   ELSE rest

\* Mutant of get_body: the parity of the offsets is not checked.
get_bodyNoCheck(body, delim) ==
    IF body = None THEN [ok |-> TRUE, v |-> None]
    ELSE [ok |-> TRUE, v |-> Some(<<body[1], MatchIndices(body[1], delim)>>)]

\* get_body: None for no body, the body with its delimiter offsets, or a
\* panic on an odd count.
get_body(body, delim) ==
    IF body = None THEN [ok |-> TRUE, v |-> None]
    ELSE LET indices == MatchIndices(body[1], delim) IN
         IF Len(indices) % 2 # 0 THEN [ok |-> FALSE, v |-> None]
         ELSE [ok |-> TRUE, v |-> Some(<<body[1], indices>>)]

\* ----------------------------------------------------------- materializing
\* Mutant of BodyLoop: iterator += 1, one insertion per delimiter occurrence.
RECURSIVE BodyLoopPerDelimiter(_, _, _, _)
BodyLoopPerDelimiter(body, delimLen, word, iterator) ==
    IF iterator < Len(body[2])
    THEN LET first_delim_pos == body[2][iterator + 1]
             last_delim_pos == IF iterator = 0 THEN 0
                               ELSE body[2][iterator] + delimLen
         IN << [lit |-> TRUE, s |-> Slice(body[1], last_delim_pos, first_delim_pos)],
               [lit |-> FALSE, s |-> word] >>
            \o BodyLoopPerDelimiter(body, delimLen, word, iterator + 1)
    ELSE LET last_delim_pos == body[2][iterator] + delimLen IN
         IF last_delim_pos < Len(body[1])
         THEN << [lit |-> TRUE, s |-> Slice(body[1], last_delim_pos, Len(body[1]))] >>
         ELSE <<>>

\* Mutant of BodyLoop: the text after the last closing delimiter is not pushed.
RECURSIVE BodyLoopNoTail(_, _, _, _)
BodyLoopNoTail(body, delimLen, word, iterator) ==
    IF iterator < Len(body[2])
    THEN LET first_delim_pos == body[2][iterator + 1]
             last_delim_pos == IF iterator = 0 THEN 0
                               ELSE body[2][iterator] + delimLen
         IN << [lit |-> TRUE, s |-> Slice(body[1], last_delim_pos, first_delim_pos)],
               [lit |-> FALSE, s |-> word] >>
            \o BodyLoopNoTail(body, delimLen, word, iterator + 2)
    ELSE <<>>

\* Mutant of BodyLoop: the tail starts at the last closing delimiter instead
\* of after it.
RECURSIVE BodyLoopKeepsClosing(_, _, _, _)
BodyLoopKeepsClosing(body, delimLen, word, iterator) ==
    IF iterator < Len(body[2])
    THEN LET first_delim_pos == body[2][iterator + 1]
             last_delim_pos == IF iterator = 0 THEN 0
                               ELSE body[2][iterator] + delimLen
         IN << [lit |-> TRUE, s |-> Slice(body[1], last_delim_pos, first_delim_pos)],
               [lit |-> FALSE, s |-> word] >>
            \o BodyLoopKeepsClosing(body, delimLen, word, iterator + 2)
    ELSE LET last_delim_pos == body[2][iterator] IN
         IF last_delim_pos < Len(body[1])
         THEN << [lit |-> TRUE, s |-> Slice(body[1], last_delim_pos, Len(body[1]))] >>
         ELSE <<>>

\* The while loop of the body materialization from position iterator on:
\* the pieces pushed to value, each tagged literal or word.
RECURSIVE BodyLoop(_, _, _, _)
BodyLoop(body, delimLen, word, iterator) ==
    IF iterator < Len(body[2])
    THEN LET first_delim_pos == body[2][iterator + 1]
             last_delim_pos == IF iterator = 0 THEN 0
                               ELSE body[2][iterator] + delimLen
         IN << [lit |-> TRUE, s |-> Slice(body[1], last_delim_pos, first_delim_pos)],
               [lit |-> FALSE, s |-> word] >>
            \o BodyLoop(body, delimLen, word, iterator + 2)
    ELSE LET last_delim_pos == body[2][iterator] + delimLen IN
         IF last_delim_pos < Len(body[1])
         THEN << [lit |-> TRUE, s |-> Slice(body[1], last_delim_pos, Len(body[1]))] >>
         ELSE <<>>

\* Mutant of Pieces: a template without delimiters is replaced by the word.
PiecesWordWhenNoDelimiter(body, delimLen, word) ==
    IF Len(body[2]) > 0
    THEN BodyLoop(body, delimLen, word, 0)
    ELSE << [lit |-> FALSE, s |-> word] >>

\* The pieces pushed for one compiled template (the same walk is written
\* out for the header key, the header value and the body).
Pieces(body, delimLen, word) ==
    IF Len(body[2]) > 0
    THEN BodyLoop(body, delimLen, word, 0)
    ELSE << [lit |-> TRUE, s |-> body[1]] >>

Flatten(pieces) == Concat([i \in 1..Len(pieces) |-> pieces[i].s])

MaterializeBody(body, delimLen, word) == Flatten(Pieces(body, delimLen, word))

MaterializeKey(header, delimLen, word) == Flatten(Pieces(header[1], delimLen, word))

MaterializeValue(header, delimLen, word) == Flatten(Pieces(header[2], delimLen, word))

\* The request a per-word task builds: one (key, value) per compiled header,
\* in order, and the optional body.
BuildRequest(hs, bs, delim, word) ==
    [headers |-> [i \in 1..Len(hs) |->
                    << MaterializeKey(hs[i], Len(delim), word),
                       MaterializeValue(hs[i], Len(delim), word) >>],
     body |-> IF bs = None THEN None
              ELSE Some(MaterializeBody(bs[1], Len(delim), word))]

\* ------------------------------------------------------------------- state
VARIABLES
    args,       \* the parsed Args: method, header, body, delim, threads, list
    wordlist,   \* the Vec<String> behind the Mutex: <<[line, word], ...>>
    lock,       \* the Mutex: 0 when free, else the worker holding the guard
    headers,    \* get_headers' result, once computed
    bodies,     \* get_body's result, once computed
    mainpc,     \* where the main task stands
    spawned,    \* thread_handles.len(): the workers spawned so far
    joined,     \* the thread_handles the main task has awaited
    workers,    \* per worker: pc, the popped word, async_handles, await index
    out,        \* the lines printed so far
    panic,      \* the message of the main task's panic, "" while it has none
    popLog      \* history: every Some(word) a pop returned, in lock order

vars == <<args, wordlist, lock, headers, bodies, mainpc, spawned, joined,
          workers, out, panic, popLog>>

WorkerIds == 1..MaxThreads

\* The wordlist file: its lines in order, or None when it cannot be opened.
FileLines(f) == [i \in 1..Len(f) |-> [line |-> i, word |-> f[i]]]

IdleWorker == [pc |-> "unspawned", word |-> None, async_handles |-> <<>>, k |-> 1]

StartState(a) ==
    /\ args = a
    /\ wordlist = <<>>
    /\ lock = 0
    /\ headers = <<>>
    /\ bodies = None
    /\ mainpc = "load"
    /\ spawned = 0
    /\ joined = 0
    /\ workers = [w \in WorkerIds |-> IdleWorker]
    /\ out = <<>>
    /\ panic = ""
    /\ popLog = <<>>

\* ------------------------------------------------------------- main task
\* load_words_to_memory: lock, open the file, push every line, unlock.
load_words_to_memory ==
    /\ mainpc = "load"
    /\ lock = 0
    /\ IF args.list = None
       THEN /\ mainpc' = "panicked"
            /\ panic' = "unwrap on Err: File::open"
            /\ UNCHANGED wordlist
       ELSE /\ wordlist' = wordlist \o FileLines(args.list[1])
            /\ mainpc' = "check_method"
            /\ UNCHANGED panic
    /\ UNCHANGED <<args, lock, headers, bodies, spawned, joined, workers, out, popLog>>

\* Mutant of CheckMethod: the method is not checked.
CheckMethodSkip ==
    /\ mainpc = "check_method"
    /\ mainpc' = "get_headers"
    /\ UNCHANGED <<panic, args, wordlist, lock, headers, bodies, spawned, joined, workers,
                   out, popLog>>

\* if !http_methods.contains(&args.method) { panic!("Method not valid") }
CheckMethod ==
    /\ mainpc = "check_method"
    /\ IF args.method \notin http_methods
       THEN /\ mainpc' = "panicked"
            /\ panic' = "Method not valid"
       ELSE /\ mainpc' = "get_headers"
            /\ UNCHANGED panic
    /\ UNCHANGED <<args, wordlist, lock, headers, bodies, spawned, joined, workers,
                   out, popLog>>

\* let headers = Arc::new(get_headers(..))
GetHeaders ==
    /\ mainpc = "get_headers"
    /\ LET r == get_headers(args.header, args.delim) IN
       IF r.ok THEN /\ headers' = r.v
                    /\ mainpc' = "get_body"
       ELSE /\ mainpc' = "panicked"
            /\ UNCHANGED headers
    /\ panic' = IF get_headers(args.header, args.delim).ok THEN panic
                ELSE "Delimiters need to be set in pairs"
    /\ UNCHANGED <<args, wordlist, lock, bodies, spawned, joined, workers, out, popLog>>

\* let bodies = Arc::new(get_body(..))
GetBody ==
    /\ mainpc = "get_body"
    /\ LET r == get_body(args.body, args.delim) IN
       IF r.ok THEN /\ bodies' = r.v
                    /\ mainpc' = "spawn"
       ELSE /\ mainpc' = "panicked"
            /\ UNCHANGED bodies
    /\ panic' = IF get_body(args.body, args.delim).ok THEN panic
                ELSE "Delimiters need to be set in pairs"
    /\ UNCHANGED <<args, wordlist, lock, headers, spawned, joined, workers, out, popLog>>

\* Mutant of SpawnWorker: the worker count is clamped to at least one.
SpawnWorkerAtLeastOne ==
    /\ mainpc = "spawn"
    /\ IF spawned < args.threads \/ spawned = 0
       THEN /\ spawned' = spawned + 1
            /\ workers' = [workers EXCEPT ![spawned + 1].pc = "lock"]
            /\ UNCHANGED mainpc
       ELSE /\ mainpc' = "join"
            /\ UNCHANGED <<spawned, workers>>
    /\ UNCHANGED <<panic, args, wordlist, lock, headers, bodies, joined, out, popLog>>

\* for _ in 0..args.threads { thread_handles.push(tokio::spawn(..)) }
SpawnWorker ==
    /\ mainpc = "spawn"
    /\ IF spawned < args.threads
       THEN /\ spawned' = spawned + 1
            /\ workers' = [workers EXCEPT ![spawned + 1].pc = "lock"]
            /\ UNCHANGED mainpc
       ELSE /\ mainpc' = "join"
            /\ UNCHANGED <<spawned, workers>>
    /\ UNCHANGED <<panic, args, wordlist, lock, headers, bodies, joined, out, popLog>>

\* Mutant of JoinWorker: the JoinError of a panicked worker is discarded.
JoinWorkerIgnoresPanic ==
    /\ mainpc = "join"
    /\ joined < spawned
    /\ workers[joined + 1].pc \in {"done", "panicked"}
    /\ joined' = joined + 1
    /\ UNCHANGED <<panic, mainpc, args, wordlist, lock, headers, bodies, spawned, workers,
                   out, popLog>>

\* for thread_handle in thread_handles { thread_handle.await.unwrap(); }
JoinWorker ==
    /\ mainpc = "join"
    /\ joined < spawned
    /\ workers[joined + 1].pc \in {"done", "panicked"}
    /\ IF workers[joined + 1].pc = "done"
       THEN /\ joined' = joined + 1
            /\ UNCHANGED mainpc
       ELSE /\ mainpc' = "panicked"
            /\ UNCHANGED joined
    /\ panic' = IF workers[joined + 1].pc = "done" THEN panic
                ELSE "unwrap on Err: JoinError"
    /\ UNCHANGED <<args, wordlist, lock, headers, bodies, spawned, workers, out, popLog>>

CompleteLine == [kind |-> "complete", word |-> <<>>]

\* Mutant of Complete: the line is printed without joining the workers.
CompleteEarly ==
    /\ mainpc = "join"
    /\ out' = Append(out, CompleteLine)
    /\ mainpc' = "exit"
    /\ UNCHANGED <<panic, args, wordlist, lock, headers, bodies, spawned, joined, workers, popLog>>

\* println!("Complete! Time taken: ..")
Complete ==
    /\ mainpc = "join"
    /\ joined = spawned
    /\ out' = Append(out, CompleteLine)
    /\ mainpc' = "exit"
    /\ UNCHANGED <<panic, args, wordlist, lock, headers, bodies, spawned, joined, workers, popLog>>

\* ---------------------------------------------------------------- workers
\* Whether a request task of worker w has already panicked (history only).
HasFailed(w) ==
    \E i \in 1..Len(workers[w].async_handles) :
        workers[w].async_handles[i].state = "panicked"

\* Mutant of WorkerLock: a worker one of whose requests has failed stops
\* instead of taking the lock again.
WorkerLockStopOnFailure(w) ==
    /\ workers[w].pc = "lock"
    /\ IF HasFailed(w)
       THEN /\ workers' = [workers EXCEPT ![w].pc = "panicked"]
            /\ UNCHANGED lock
       ELSE /\ lock = 0
            /\ lock' = w
            /\ workers' = [workers EXCEPT ![w].pc = "pop"]
    /\ UNCHANGED <<panic, args, wordlist, headers, bodies, mainpc, spawned, joined, out, popLog>>

\* let mut wordsmutex = wordlist.lock().unwrap();
WorkerLock(w) ==
    /\ workers[w].pc = "lock"
    /\ lock = 0
    /\ lock' = w
    /\ workers' = [workers EXCEPT ![w].pc = "pop"]
    /\ UNCHANGED <<panic, args, wordlist, headers, bodies, mainpc, spawned, joined, out, popLog>>

\* Mutant of WorkerPop: the last word is read (Vec::last) and left in the Vec.
WorkerPopPeek(w) ==
    /\ workers[w].pc = "pop"
    /\ lock = w
    /\ IF wordlist = <<>>
       THEN /\ lock' = 0
            /\ workers' = [workers EXCEPT ![w].pc = "await"]
            /\ UNCHANGED <<wordlist, popLog>>
       ELSE /\ workers' = [workers EXCEPT ![w].pc = "drop",
                                          ![w].word = Some(wordlist[Len(wordlist)])]
            /\ popLog' = Append(popLog, [worker |-> w,
                                         line |-> wordlist[Len(wordlist)].line,
                                         word |-> wordlist[Len(wordlist)].word,
                                         afterFail |-> HasFailed(w)])
            /\ UNCHANGED <<lock, wordlist>>
    /\ UNCHANGED <<panic, args, headers, bodies, mainpc, spawned, joined, out>>

\* Mutant of WorkerPop: on None the worker goes back to the lock and waits
\* for new words instead of leaving the loop.
WorkerPopRetry(w) ==
    /\ workers[w].pc = "pop"
    /\ lock = w
    /\ IF wordlist = <<>>
       THEN /\ lock' = 0
            /\ workers' = [workers EXCEPT ![w].pc = "lock"]
            /\ UNCHANGED <<wordlist, popLog>>
       ELSE /\ wordlist' = SubSeq(wordlist, 1, Len(wordlist) - 1)
            /\ workers' = [workers EXCEPT ![w].pc = "drop",
                                          ![w].word = Some(wordlist[Len(wordlist)])]
            /\ popLog' = Append(popLog, [worker |-> w,
                                         line |-> wordlist[Len(wordlist)].line,
                                         word |-> wordlist[Len(wordlist)].word,
                                         afterFail |-> HasFailed(w)])
            /\ UNCHANGED lock
    /\ UNCHANGED <<panic, args, headers, bodies, mainpc, spawned, joined, out>>

\* Mutant of WorkerPop: the word is taken from the front of the Vec.
WorkerPopFront(w) ==
    /\ workers[w].pc = "pop"
    /\ lock = w
    /\ IF wordlist = <<>>
       THEN /\ lock' = 0
            /\ workers' = [workers EXCEPT ![w].pc = "await"]
            /\ UNCHANGED <<wordlist, popLog>>
       ELSE /\ wordlist' = Tail(wordlist)
            /\ workers' = [workers EXCEPT ![w].pc = "drop",
                                          ![w].word = Some(Head(wordlist))]
            /\ popLog' = Append(popLog, [worker |-> w,
                                         line |-> Head(wordlist).line,
                                         word |-> Head(wordlist).word,
                                         afterFail |-> HasFailed(w)])
            /\ UNCHANGED lock
    /\ UNCHANGED <<panic, args, headers, bodies, mainpc, spawned, joined, out>>

\* match wordsmutex.pop() { Some(word) => word, None => break }: Vec::pop takes
\* the last element; on None the guard is dropped as the loop is left.
WorkerPop(w) ==
    /\ workers[w].pc = "pop"
    /\ lock = w
    /\ IF wordlist = <<>>
       THEN /\ lock' = 0
            /\ workers' = [workers EXCEPT ![w].pc = "await"]
            /\ UNCHANGED <<wordlist, popLog>>
       ELSE /\ wordlist' = SubSeq(wordlist, 1, Len(wordlist) - 1)
            /\ workers' = [workers EXCEPT ![w].pc = "drop",
                                          ![w].word = Some(wordlist[Len(wordlist)])]
            /\ popLog' = Append(popLog, [worker |-> w,
                                         line |-> wordlist[Len(wordlist)].line,
                                         word |-> wordlist[Len(wordlist)].word,
                                         afterFail |-> HasFailed(w)])
            /\ UNCHANGED lock
    /\ UNCHANGED <<panic, args, headers, bodies, mainpc, spawned, joined, out>>

\* Mutant of WorkerDrop: the guard outlives the pop.
WorkerDropKeepsLock(w) ==
    /\ workers[w].pc = "drop"
    /\ lock = w
    /\ workers' = [workers EXCEPT ![w].pc = "spawn"]
    /\ UNCHANGED <<panic, args, wordlist, lock, headers, bodies, mainpc, spawned, joined, out,
                   popLog>>

\* drop(wordsmutex);
WorkerDrop(w) ==
    /\ workers[w].pc = "drop"
    /\ lock = w
    /\ lock' = 0
    /\ workers' = [workers EXCEPT ![w].pc = "spawn"]
    /\ UNCHANGED <<panic, args, wordlist, headers, bodies, mainpc, spawned, joined, out, popLog>>

\* Mutant of NewTask: the task reads its word from the shared Vec when it is
\* spawned instead of owning the popped one.
NewTaskSharedWord(item) ==
    [line |-> item.line,
     word |-> IF wordlist = <<>> THEN item.word ELSE wordlist[Len(wordlist)].word,
     state |-> "spawned", req |-> None]

NewTask(item) == [line |-> item.line, word |-> item.word, state |-> "spawned",
                  req |-> None]

\* The client is built, the per-word task is spawned and its handle pushed;
\* the loop goes back to the lock without awaiting the handle.
WorkerSpawn(w) ==
    /\ workers[w].pc = "spawn"
    /\ workers' = [workers EXCEPT
                     ![w].pc = "lock",
                     ![w].word = None,
                     ![w].async_handles = Append(@, NewTask(workers[w].word[1]))]
    /\ UNCHANGED <<panic, args, wordlist, lock, headers, bodies, mainpc, spawned, joined,
                   out, popLog>>

\* Mutant of WorkerAwait: the worker ends without awaiting its handles.
WorkerAwaitNoWait(w) ==
    /\ workers[w].pc = "await"
    /\ workers' = [workers EXCEPT ![w].pc = "done"]
    /\ UNCHANGED <<panic, args, wordlist, lock, headers, bodies, mainpc, spawned, joined,
                   out, popLog>>

\* for async_handle in async_handles { async_handle.await.unwrap(); }
WorkerAwait(w) ==
    /\ workers[w].pc = "await"
    /\ IF workers[w].k > Len(workers[w].async_handles)
       THEN workers' = [workers EXCEPT ![w].pc = "done"]
       ELSE /\ workers[w].async_handles[workers[w].k].state \in {"done", "panicked"}
            /\ IF workers[w].async_handles[workers[w].k].state = "done"
               THEN workers' = [workers EXCEPT ![w].k = @ + 1]
               ELSE workers' = [workers EXCEPT ![w].pc = "panicked"]
    /\ UNCHANGED <<panic, args, wordlist, lock, headers, bodies, mainpc, spawned, joined,
                   out, popLog>>

\* ---------------------------------------------------------- request tasks
TaskIds(w) == 1..Len(workers[w].async_handles)

\* The task builds the request from the compiled headers and body and the
\* word it was spawned with, and sends it.
TaskBuild(w, t) ==
    /\ workers[w].async_handles[t].state = "spawned"
    /\ workers' = [workers EXCEPT
                     ![w].async_handles[t].state = "sending",
                     ![w].async_handles[t].req =
                         Some(BuildRequest(headers, bodies, args.delim,
                                           workers[w].async_handles[t].word))]
    /\ UNCHANGED <<panic, args, wordlist, lock, headers, bodies, mainpc, spawned, joined,
                   out, popLog>>

\* Mutant of TaskSend: a word whose request failed is pushed back to the
\* Vec for another try.
TaskSendRequeue(w, t, ok) ==
    /\ workers[w].async_handles[t].state = "sending"
    /\ workers' = [workers EXCEPT
                     ![w].async_handles[t].state = IF ok THEN "reading" ELSE "panicked"]
    /\ wordlist' = IF ok THEN wordlist
                   ELSE Append(wordlist, [line |-> workers[w].async_handles[t].line,
                                          word |-> workers[w].async_handles[t].word])
    /\ UNCHANGED <<panic, args, lock, headers, bodies, mainpc, spawned, joined,
                   out, popLog>>

\* let resp = req.send().await.unwrap(): the transport answers or fails.
TaskSend(w, t, ok) ==
    /\ workers[w].async_handles[t].state = "sending"
    /\ workers' = [workers EXCEPT
                     ![w].async_handles[t].state = IF ok THEN "reading" ELSE "panicked"]
    /\ UNCHANGED <<panic, args, wordlist, lock, headers, bodies, mainpc, spawned, joined,
                   out, popLog>>

OutcomeLine(word) == [kind |-> "outcome", word |-> word]

\* let text = resp.text().await.unwrap(); println!("Status code: .. Word: {}")
TaskText(w, t, ok) ==
    /\ workers[w].async_handles[t].state = "reading"
    /\ IF ok
       THEN /\ out' = Append(out, OutcomeLine(workers[w].async_handles[t].word))
            /\ workers' = [workers EXCEPT ![w].async_handles[t].state = "done"]
       ELSE /\ workers' = [workers EXCEPT ![w].async_handles[t].state = "panicked"]
            /\ UNCHANGED out
    /\ UNCHANGED <<panic, args, wordlist, lock, headers, bodies, mainpc, spawned, joined, popLog>>

\* ----------------------------------------------------------- specification
Next ==
    \/ load_words_to_memory
    \/ CheckMethod
    \/ GetHeaders
    \/ GetBody
    \/ SpawnWorker
    \/ JoinWorker
    \/ Complete
    \/ \E w \in WorkerIds : WorkerLock(w)
    \/ \E w \in WorkerIds : WorkerPop(w)
    \/ \E w \in WorkerIds : WorkerDrop(w)
    \/ \E w \in WorkerIds : WorkerSpawn(w)
    \/ \E w \in WorkerIds : WorkerAwait(w)
    \/ \E w \in WorkerIds : \E t \in TaskIds(w) : TaskBuild(w, t)
    \/ \E w \in WorkerIds : \E t \in TaskIds(w) : \E ok \in BOOLEAN : TaskSend(w, t, ok)
    \/ \E w \in WorkerIds : \E t \in TaskIds(w) : \E ok \in BOOLEAN : TaskText(w, t, ok)

\* ------------------------------------------------------------------ inputs
\* Runs of the whole program: a few command lines, the wordlist files of at
\* most MaxWords lines that alternate two words (one of them holds the
\* delimiter) and a file of one word twice, and every thread count up to
\* MaxThreads.
Hash == <<"#">>

WordFiles ==
    {[i \in 1..k |-> IF i % 2 = 1 THEN <<"w">> ELSE <<"#">>] : k \in 0..MaxWords}
    \cup {<< <<"w">>, <<"w">> >>}

CommandLines ==
    { \* -H "k: #v#" -H "bad#" -H "a: b: c" -H "x: y" -b "u=#x#y"
      [method |-> "GET", delim |-> Hash,
       header |-> << <<"k", ":", " ", "#", "v", "#">>, <<"b", "a", "d", "#">>,
                     <<"a", ":", " ", "b", ":", " ", "c">>, <<"x", ":", " ", "y">> >>,
       body |-> Some(<<"u", "=", "#", "x", "#", "y">>)],
      \* -b "a#b": one delimiter in the body
      [method |-> "GET", delim |-> Hash, header |-> <<>>,
       body |-> Some(<<"a", "#", "b">>)],
      \* -H "k#: v": one delimiter in a header key
      [method |-> "GET", delim |-> Hash,
       header |-> << <<"k", "#", ":", " ", "v">> >>, body |-> None],
      \* -H "k: #v": one delimiter in a header value
      [method |-> "GET", delim |-> Hash,
       header |-> << <<"k", ":", " ", "#", "v">> >>, body |-> None],
      \* -m "BOGUS"
      [method |-> "BOGUS", delim |-> Hash, header |-> <<>>,
       body |-> Some(<<"#", "x", "#">>)] }

WithRun(c, list, threads) ==
    [method |-> c.method, delim |-> c.delim, header |-> c.header, body |-> c.body,
     list |-> list, threads |-> threads]

Init ==
    \E c \in CommandLines, f \in WordFiles, n \in 0..MaxThreads, readable \in BOOLEAN :
        /\ ~readable => (f = <<>> /\ n = 1)
        /\ StartState(WithRun(c, IF readable THEN Some(f) ELSE None, n))

Spec == Init /\ [][Next]_vars

\* The runtime runs every task that can step, the Mutex is handed to a
\* waiting task once it is free, and the transport answers every request.
\* Every run is finite, so fairness of Next as a whole states this.
SpecFair == Spec /\ WF_vars(Next)

\* Runs over the templates: one worker, a one-line wordlist, and every raw
\* template of at most MaxRawLen characters over {a, #} as the body, as a
\* header key or as a header value, with every delimiter of at most
\* MaxDelimLen characters and a word that is empty, plain, or made of
\* delimiter characters.
Alphabet == {"a", "#"}

Raws == StrsUpTo(Alphabet, MaxRawLen)

Delims == StrsUpTo(Alphabet, MaxDelimLen) \ {<<>>}

TemplateWords == {<<>>, <<"w">>, <<"#", "#">>}

TemplateLine(place, raw) ==
    CASE place = "body" -> [header |-> <<>>, body |-> Some(raw)]
      [] place = "key" -> [header |-> << raw \o ColonSpace \o <<"v">> >>, body |-> None]
      [] place = "value" -> [header |-> << <<"k">> \o ColonSpace \o raw >>, body |-> None]

InitT ==
    \E raw \in Raws, d \in Delims, word \in TemplateWords,
       place \in {"body", "key", "value"} :
        StartState([method |-> IF raw = <<>> /\ word = <<>> THEN "BOGUS" ELSE "GET",
                    delim |-> d,
                    header |-> TemplateLine(place, raw).header,
                    body |-> TemplateLine(place, raw).body,
                    list |-> Some(<<word>>), threads |-> 1])

SpecT == InitT /\ [][Next]_vars

\* ------------------------------------------------------------------ claims
\* The handles (request tasks) of every worker, as <<worker, index>>.
Tasks == {<<w, t>> \in WorkerIds \X (1..MaxWords + 1) : t \in TaskIds(w)}

TaskOf(wt) == workers[wt[1]].async_handles[wt[2]]

\* The 0-based offsets at which pat occurs in s, overlapping ones included.
OccPositions(s, pat) ==
    {i \in 0..(Len(s) - Len(pat)) : Slice(s, i, i + Len(pat)) = pat}

\* The number of non-overlapping occurrences of pat in s: the size of a
\* largest set of occurrences no two of which overlap.
OccCount(s, pat) ==
    LET free == {S \in SUBSET OccPositions(s, pat) :
                    \A i, j \in S : i # j => (i + Len(pat) <= j \/ j + Len(pat) <= i)}
        sizes == {Cardinality(S) : S \in free}
    IN CHOOSE n \in sizes : \A m \in sizes : m <= n

\* The raw template strings of a command line: the body, and the key and the
\* value of every header flag that splits in two on ": ".
RawTemplates(a) ==
    (IF a.body = None THEN {} ELSE {a.body[1]})
    \cup UNION {LET parts == Split(a.header[i], ColonSpace)
                IN IF Len(parts) = 2 THEN {parts[1], parts[2]} ELSE {} :
                   i \in 1..Len(a.header)}

OddTemplate(a) == \E raw \in RawTemplates(a) : OccCount(raw, a.delim) % 2 = 1

\* C1: no wordlist line is returned by two pops, be it by two workers or
\* twice by one worker.
C1_AtMostOnce ==
    \A i, j \in 1..Len(popLog) : i # j => popLog[i].line # popLog[j].line

\* Two different workers have each been handed a word.
C1_Witness ==
    /\ Len(popLog) >= 2
    /\ popLog[1].worker # popLog[2].worker

Count(seq, x) == Cardinality({i \in 1..Len(seq) : seq[i] = x})

OutcomeWords == [i \in 1..Len(SelectSeq(out, LAMBDA l : l.kind = "outcome")) |->
                    SelectSeq(out, LAMBDA l : l.kind = "outcome")[i].word]

AllWorkersDone ==
    /\ args.threads >= 1
    /\ \A w \in 1..args.threads : workers[w].pc = "done"

\* C2: once all N >= 1 workers have terminated normally (every transport
\* call succeeded), the words of the outcome lines are, as a multiset,
\* the lines of the wordlist.
C2_OutcomesAreTheWordlist ==
    AllWorkersDone =>
        \A x \in {args.list[1][i] : i \in 1..Len(args.list[1])}
                 \cup {OutcomeWords[i] : i \in 1..Len(OutcomeWords)} :
            Count(OutcomeWords, x) = Count(args.list[1], x)

\* Two workers have terminated, each after requests of its own, on a
\* wordlist of at least two lines.
C2_Witness ==
    /\ AllWorkersDone
    /\ args.threads >= 2
    /\ \A w \in 1..args.threads : Len(workers[w].async_handles) >= 1

InFlight ==
    Cardinality({wt \in Tasks : TaskOf(wt).state \in {"spawned", "sending", "reading"}})

\* C3: the number of requests being built or sent, whose outcome is not yet
\* reported, is at most the number of workers.
C3_InFlightAtMostN == InFlight <= args.threads

\* C4: with an odd number of delimiters in the body or in a header key or
\* value, no worker is started, no word is popped and no request is built.
C4_OddTemplateAborts ==
    OddTemplate(args) =>
        /\ spawned = 0
        /\ popLog = <<>>
        /\ \A w \in WorkerIds : workers[w] = IdleWorker
        /\ mainpc \notin {"spawn", "join", "exit"}

\* The run has aborted on the delimiters with a loaded, non-empty wordlist
\* and workers asked for.
C4_Witness ==
    /\ OddTemplate(args)
    /\ panic = "Delimiters need to be set in pairs"
    /\ wordlist # <<>>
    /\ args.threads >= 1

PopsBy(w) == Cardinality({i \in 1..Len(popLog) : popLog[i].worker = w})

BuiltOf(wt) ==
    LET tk == TaskOf(wt)
        r == tk.req[1]
    IN (IF bodies = None THEN {}
        ELSE {[tpl |-> bodies[1], word |-> tk.word, res |-> r.body[1], place |-> "body"]})
       \cup {[tpl |-> headers[i][1], word |-> tk.word, res |-> r.headers[i][1],
              place |-> "key"] : i \in 1..Len(headers)}
       \cup {[tpl |-> headers[i][2], word |-> tk.word, res |-> r.headers[i][2],
              place |-> "value"] : i \in 1..Len(headers)}

Built == UNION {BuiltOf(wt) : wt \in {x \in Tasks : TaskOf(x).req # None}}

\* raw[0..o0] + w + raw[o1+|d| .. o2] + w + ... + w + raw[o(2n-1)+|d| ..],
\* for the offsets o (1-based here: o[1] is o0) and n = Len(o) / 2.
Expected(raw, o, d, w) ==
    LET n == Len(o) \div 2
        Literal(j) == Slice(raw, IF j = 0 THEN 0 ELSE o[2 * j] + Len(d),
                                 IF j = n THEN Len(raw) ELSE o[2 * j + 1])
    IN Concat([i \in 1..(2 * n + 1) |->
                  IF i % 2 = 1 THEN Literal((i - 1) \div 2) ELSE w])

\* C6: every materialized string is the literal text outside the spans, in
\* order, with the word once in place of each span.
C6_Materialized ==
    \A b \in Built : b.res = Expected(b.tpl[1], b.tpl[2], args.delim, b.word)

\* A body with two spans and text between them was materialized with a
\* word that holds the delimiter.
C6_Witness ==
    \E b \in Built :
        /\ b.place = "body"
        /\ Len(b.tpl[2]) = 4
        /\ b.tpl[2][3] > b.tpl[2][2] + Len(args.delim)
        /\ OccPositions(b.word, args.delim) # {}

WordPieces(pieces) == Cardinality({i \in 1..Len(pieces) : ~pieces[i].lit})

Compiled ==
    (IF bodies = None THEN {} ELSE {bodies[1]})
    \cup UNION {{headers[i][1], headers[i][2]} : i \in 1..Len(headers)}

\* C7: with k the number of non-overlapping occurrences of the delimiter,
\* compiling fails exactly when some k is odd; a compiled template holds k
\* offsets and materializing it inserts the word k/2 times.
C7_OddFailsEvenHalves ==
    /\ mainpc \in {"spawn", "join", "exit"} => ~OddTemplate(args)
    /\ panic = "Delimiters need to be set in pairs" => OddTemplate(args)
    /\ mainpc \in {"spawn", "join", "exit"} =>
          \A tpl \in Compiled : Len(tpl[2]) = OccCount(tpl[1], args.delim)
    /\ \A b \in Built :
          /\ b.res = Flatten(Pieces(b.tpl, Len(args.delim), b.word))
          /\ 2 * WordPieces(Pieces(b.tpl, Len(args.delim), b.word))
                = OccCount(b.tpl[1], args.delim)

\* A template with two non-overlapping occurrences among more overlapping
\* ones was compiled and materialized.
C7_Witness ==
    \E b \in Built :
        /\ OccCount(b.tpl[1], args.delim) = 2
        /\ Cardinality(OccPositions(b.tpl[1], args.delim)) > 2

\* The ways to read raw as a + d + X + d + b with d occurring in none of a,
\* X, b: the lengths of a and of X.
RoundTrips(raw, d) ==
    {ax \in (0..Len(raw)) \X (0..Len(raw)) :
        /\ ax[1] + ax[2] + 2 * Len(d) <= Len(raw)
        /\ Slice(raw, ax[1], ax[1] + Len(d)) = d
        /\ Slice(raw, ax[1] + Len(d) + ax[2], ax[1] + 2 * Len(d) + ax[2]) = d
        /\ OccPositions(Slice(raw, 0, ax[1]), d) = {}
        /\ OccPositions(Slice(raw, ax[1] + Len(d), ax[1] + Len(d) + ax[2]), d) = {}
        /\ OccPositions(Slice(raw, ax[1] + 2 * Len(d) + ax[2], Len(raw)), d) = {}}

RoundTripResult(raw, d, ax, w) ==
    Slice(raw, 0, ax[1]) \o w \o Slice(raw, ax[1] + 2 * Len(d) + ax[2], Len(raw))

\* C8 as stated: raw = a + d + X + d + b, with d in none of a, X, b,
\* materializes to a + w + b.
C8_RoundTripAsStated ==
    \A b \in Built : \A ax \in RoundTrips(b.tpl[1], args.delim) :
        b.res = RoundTripResult(b.tpl[1], args.delim, ax, b.word)

\* C8 as amended: the same, when the two placed delimiters are the only
\* occurrences of d in raw.
C8_RoundTrip ==
    \A b \in Built : \A ax \in RoundTrips(b.tpl[1], args.delim) :
        OccPositions(b.tpl[1], args.delim) = {ax[1], ax[1] + Len(args.delim) + ax[2]}
            => b.res = RoundTripResult(b.tpl[1], args.delim, ax, b.word)

\* A template a + d + X + d + b with a, X and b not empty and only the two
\* placed delimiters was materialized with a non-empty word.
C8_Witness ==
    \E b \in Built : \E ax \in RoundTrips(b.tpl[1], args.delim) :
        /\ OccPositions(b.tpl[1], args.delim) = {ax[1], ax[1] + Len(args.delim) + ax[2]}
        /\ ax[1] > 0
        /\ ax[2] > 0
        /\ ax[1] + ax[2] + 2 * Len(args.delim) < Len(b.tpl[1])
        /\ b.word # <<>>

\* The total length of the text enclosed by the spans of offsets o.
RECURSIVE Enclosed(_, _)
Enclosed(o, d) ==
    IF Len(o) < 2 THEN 0
    ELSE (o[2] - o[1] - Len(d)) + Enclosed(SubSeq(o, 3, Len(o)), d)

\* C9 as stated: the output is as long as raw, less the delimiters, plus
\* the word once per span.
C9_LengthAsStated ==
    \A b \in Built :
        Len(b.res) = Len(b.tpl[1]) - Len(b.tpl[2]) * Len(args.delim)
                     + Len(b.word) * (Len(b.tpl[2]) \div 2)

\* C9 as amended: the text enclosed by each span is dropped too.
C9_Length ==
    \A b \in Built :
        Len(b.res) = Len(b.tpl[1]) - Len(b.tpl[2]) * Len(args.delim)
                     - Enclosed(b.tpl[2], args.delim)
                     + Len(b.word) * (Len(b.tpl[2]) \div 2)

\* A template whose span encloses text, with text after it, was
\* materialized with a non-empty word.
C9_Witness ==
    \E b \in Built :
        /\ Len(b.tpl[2]) >= 2
        /\ Enclosed(b.tpl[2], args.delim) > 0
        /\ b.tpl[2][Len(b.tpl[2])] + Len(args.delim) < Len(b.tpl[1])
        /\ b.word # <<>>

\* C10: a template in which the delimiter does not occur is materialized
\* unchanged.
C10_NoDelimiterUnchanged ==
    \A b \in Built : OccPositions(b.tpl[1], args.delim) = {} => b.res = b.tpl[1]

\* A non-empty header key without the delimiter was materialized with a
\* non-empty word.
C10_Witness ==
    \E b \in Built :
        /\ b.place = "key"
        /\ OccPositions(b.tpl[1], args.delim) = {}
        /\ Len(b.tpl[1]) > 1
        /\ b.word # <<>>

\* The workers that have popped None and left their loop.
SawEmpty == {w \in WorkerIds : workers[w].pc \in {"await", "done", "panicked"}}

IsPrefix(p, q) == Len(p) <= Len(q) /\ p = SubSeq(q, 1, Len(p))

AnyFailed == \E w \in WorkerIds : HasFailed(w)

\* C11: once loaded the Vec only shrinks (no word is added or put back),
\* and once a pop has returned None the Vec stays empty, so every later pop
\* returns None.
C11_QueueMonotonic ==
    [][/\ mainpc # "load" => IsPrefix(wordlist', wordlist)
       /\ SawEmpty # {} => (wordlist = <<>> /\ wordlist' = <<>>)]_vars

\* Two workers have popped None, after words were handed out and a request
\* failed.
C11_Witness ==
    /\ Cardinality(SawEmpty) >= 2
    /\ popLog # <<>>
    /\ AnyFailed
    /\ wordlist = <<>>

Terminated(w) == workers[w].pc \in {"done", "panicked"}

\* C12: a worker that pops None leaves its loop in that step, releasing the
\* Mutex; and once the N >= 1 workers are being spawned, the run reaches a
\* state with the queue empty and all N workers terminated.
C12_WorkersTerminate ==
    /\ [][\A w \in WorkerIds :
            (workers[w].pc = "pop" /\ wordlist = <<>> /\ workers'[w].pc # "pop")
                => (workers'[w].pc = "await" /\ lock' = 0)]_vars
    /\ (mainpc = "spawn" /\ args.threads >= 1)
          ~> (wordlist = <<>> /\ \A w \in 1..args.threads : Terminated(w))

\* Two workers have terminated on a wordlist from which words were taken.
C12_Witness ==
    /\ args.threads >= 2
    /\ \A w \in 1..args.threads : Terminated(w)
    /\ wordlist = <<>>
    /\ popLog # <<>>

NothingDispatched ==
    /\ spawned = 0
    /\ popLog = <<>>
    /\ \A w \in WorkerIds : workers[w] = IdleWorker
    /\ mainpc \notin {"spawn", "join", "exit"}

\* C13: with a method outside the recognized verbs the run never gets past
\* the method check otherwise than by a panic: no worker is started, no word
\* is popped, no request is built.
C13_InvalidMethodAborts ==
    args.method \notin http_methods =>
        /\ NothingDispatched
        /\ mainpc \in {"load", "check_method", "panicked"}

\* The run has aborted on the method with a loaded, non-empty wordlist and
\* workers asked for.
C13_Witness ==
    /\ panic = "Method not valid"
    /\ mainpc = "panicked"
    /\ wordlist # <<>>
    /\ args.threads >= 1

\* The header flags with exactly one ": ", hence two parts.
WellFormed(header) ==
    SelectSeq(header, LAMBDA h : Cardinality(OccPositions(h, ColonSpace)) = 1)

Fill(raw, d, w) == Expected(raw, MatchIndices(raw, d), d, w)

\* The (key, value) pairs a request for word w is to carry: one per
\* well-formed flag, in the order given, every span filled with w.
ExpectedHeaders(a, w) ==
    LET wf == WellFormed(a.header) IN
    [i \in 1..Len(wf) |->
        LET p == CHOOSE q \in OccPositions(wf[i], ColonSpace) : TRUE IN
        << Fill(Slice(wf[i], 0, p), a.delim, w),
           Fill(Slice(wf[i], p + Len(ColonSpace), Len(wf[i])), a.delim, w) >>]

ExpectedBody(a, w) ==
    IF a.body = None THEN None ELSE Some(Fill(a.body[1], a.delim, w))

FileWords == UNION {{f[i] : i \in 1..Len(f)} : f \in WordFiles}

\* For every command line with even delimiter counts and every word of a
\* wordlist file: the headers and the body the request for that word is to
\* carry.
ExpectedRequests ==
    {[cmd |-> c, word |-> w,
      req |-> [headers |-> ExpectedHeaders(c, w), body |-> ExpectedBody(c, w)]] :
        c \in {x \in CommandLines : ~OddTemplate(x)}, w \in FileWords}

CommandLineOf(a) ==
    [method |-> a.method, delim |-> a.delim, header |-> a.header, body |-> a.body]

ExpectedRequest(a, w) ==
    CHOOSE e \in ExpectedRequests : e.cmd = CommandLineOf(a) /\ e.word = w

BuiltTasks == {wt \in Tasks : TaskOf(wt).req # None}

JoinErrorMsg == "unwrap on Err: JoinError"

\* C14: a flag that does not split in two on ": " is left out of every
\* request and aborts nothing; the well-formed flags are in every request,
\* once each and in the order given.
C14_MalformedHeaderSkipped ==
    /\ \A wt \in BuiltTasks :
          TaskOf(wt).req[1].headers = ExpectedRequest(args, TaskOf(wt).word).req.headers
    /\ (mainpc = "panicked" /\ panic # JoinErrorMsg) =>
          \/ args.method \notin http_methods
          \/ args.list = None
          \/ OddTemplate(args)

\* A request was built from four flags, two of them malformed (one with an
\* odd delimiter count), with a word that holds the delimiter.
C14_Witness ==
    \E wt \in BuiltTasks :
        /\ Len(args.header) = 4
        /\ Len(TaskOf(wt).req[1].headers) = 2
        /\ TaskOf(wt).word = args.delim

PopsOf(w) == SelectSeq(popLog, LAMBDA e : e.worker = w)

DoneWords(x) == Cardinality({wt \in Tasks : TaskOf(wt).state = "done" /\ TaskOf(wt).word = x})

\* C15: the t-th request task of a worker holds the t-th word that worker
\* popped; its header keys, header values and body are filled with that word
\* alone; and its outcome line carries that word.
C15_OneWordPerRequest ==
    /\ \A w \in WorkerIds :
          LET mine == PopsOf(w) IN
          \A t \in TaskIds(w) :
              /\ t <= Len(mine)
              /\ workers[w].async_handles[t].word = mine[t].word
              /\ workers[w].async_handles[t].line = mine[t].line
              /\ workers[w].async_handles[t].word = args.list[1][mine[t].line]
    /\ \A wt \in BuiltTasks :
          [cmd |-> CommandLineOf(args), word |-> TaskOf(wt).word, req |-> TaskOf(wt).req[1]]
              \in ExpectedRequests
    /\ \A x \in FileWords : Count(out, OutcomeLine(x)) = DoneWords(x)

\* Two workers have each built a request, for different words, and neither
\* request is answered yet.
C15_Witness ==
    \E a \in BuiltTasks, b \in BuiltTasks :
        /\ a[1] # b[1]
        /\ TaskOf(a).word # TaskOf(b).word
        /\ TaskOf(a).state = "sending"
        /\ TaskOf(b).state = "sending"
        /\ TaskOf(a).req[1].body # None

CompletePrinted == \E i \in 1..Len(out) : out[i] = CompleteLine

C17_CompleteIsLast ==
    CompletePrinted =>
        /\ spawned = args.threads
        /\ joined = spawned
        /\ \A w \in 1..args.threads : workers[w].pc = "done"
        /\ \A wt \in Tasks : TaskOf(wt).state = "done"
        /\ out[Len(out)] = CompleteLine
        /\ Len(OutcomeWords) = Len(out) - 1
        /\ Len(OutcomeWords) = Cardinality(Tasks)

\* "Complete!" was printed after two workers had each reported a request.
C17_Witness ==
    /\ CompletePrinted
    /\ args.threads >= 2
    /\ \A w \in 1..args.threads : workers[w].async_handles # <<>>

InCritical == {w \in WorkerIds : workers[w].pc \in {"pop", "drop"}}

\* C18: at most one worker is between lock() and the release of the guard;
\* a worker holds the lock exactly there, so never while a request for its
\* popped word exists or while it awaits its requests; and a worker waiting
\* for the lock waits for a holder that can always go on.
C18_LockDiscipline ==
    /\ Cardinality(InCritical) <= 1
    /\ \A w \in WorkerIds : (lock = w) <=> (w \in InCritical)
    /\ lock \in WorkerIds =>
          /\ workers[lock].pc = "drop" =>
                /\ workers[lock].word # None
                /\ \A t \in TaskIds(lock) :
                      workers[lock].async_handles[t].line # workers[lock].word[1].line
          /\ workers[lock].pc = "pop" => workers[lock].word = None
    /\ mainpc \in {"load", "check_method", "get_headers", "get_body"} => lock = 0

\* One worker holds the lock with a popped word while the other waits for
\* the lock and a request is on the wire.
C18_Witness ==
    \E w \in WorkerIds, v \in WorkerIds :
        /\ lock = w
        /\ workers[w].pc = "drop"
        /\ workers[v].pc = "lock"
        /\ \E wt \in Tasks : TaskOf(wt).state = "sending"

\* C19: the i-th pop of the run, whichever worker made it, took the i-th
\* line from the end of the wordlist file.
C19_TakeOrderLIFO ==
    popLog # <<>> =>
        /\ args.list # None
        /\ Len(popLog) + Len(wordlist) = Len(args.list[1])
        /\ \A i \in 1..Len(popLog) :
              /\ popLog[i].line = Len(args.list[1]) - i + 1
              /\ popLog[i].word = args.list[1][popLog[i].line]

\* Two workers popped one word each, and the words differ.
C19_Witness ==
    /\ Len(popLog) >= 2
    /\ popLog[1].worker # popLog[2].worker
    /\ popLog[1].word # popLog[2].word

\* C20: with -t 0 no worker is started, no word is taken and no request is
\* made, and the run still prints "Complete!" as its only line.
C20_ZeroWorkers ==
    args.threads = 0 =>
        /\ spawned = 0
        /\ popLog = <<>>
        /\ \A w \in WorkerIds : workers[w] = IdleWorker
        /\ mainpc \in {"spawn", "join", "exit"} => wordlist = FileLines(args.list[1])
        /\ mainpc = "exit" => out = <<CompleteLine>>
        /\ mainpc \notin {"exit"} => out = <<>>

\* A run with -t 0 and a wordlist of two lines has printed "Complete!".
C20_Witness ==
    /\ args.threads = 0
    /\ mainpc = "exit"
    /\ CompletePrinted
    /\ Len(wordlist) >= 2

====
